---- MODULE Spec2Model ----
(***************************************************************************)
(* invenio_webhooks.models: the receiver registry, the signature check,    *)
(* payload extraction and the dispatch of webhook events, as a state       *)
(* machine.  Operators keep the names of the Python source.                *)
(***************************************************************************)
EXTENDS Integers, Sequences, FiniteSets, TLC

(***************************************************************************)
(* Bounds of the model.                                                    *)
(***************************************************************************)
\* at most MaxQueue messages wait in the task queue
MaxQueue == 1

(***************************************************************************)
(* Python values.  Every value carries its type, so that values of         *)
(* different types compare unequal.                                        *)
(***************************************************************************)
PyNone == [t |-> "NoneType", v |-> "None"]
PyBool(b) == [t |-> "bool", v |-> b]
PyInt(n) == [t |-> "int", v |-> n]
PyStr(s) == [t |-> "str", v |-> s]
PyList(s) == [t |-> "list", v |-> s]
PyDict(d) == [t |-> "dict", v |-> d]

\* Python truthiness of the values the code tests with "if x" / "not x"
Truthy(x) ==
    CASE x.t = "NoneType" -> FALSE
      [] x.t = "bool" -> x.v
      [] x.t = "str" -> x.v # ""
      [] x.t = "dict" -> DOMAIN x.v # {}
      [] OTHER -> TRUE

\* the outcome of a call: it returns a value or raises an exception
Return(value) == [kind |-> "return", value |-> value]
Raise(exc, arg) == [kind |-> "raise", exc |-> exc, arg |-> arg]
Raised(o) == o.kind = "raise"

(***************************************************************************)
(* Signature schemes.  A scheme name is the string the receiver was built  *)
(* with, kept as its characters because the code rewrites it character by  *)
(* character into the name of the verifier.                                *)
(***************************************************************************)
NoSignature == <<>>
XHubSignature == <<"X", "-", "H", "u", "b", "-", "S", "i", "g", "n", "a", "t", "u", "r", "e">>
XFoo == <<"X", "-", "F", "o", "o">>

UpperCase == <<"A", "B", "C", "D", "E", "F", "G", "H", "I", "J", "K", "L", "M",
               "N", "O", "P", "Q", "R", "S", "T", "U", "V", "W", "X", "Y", "Z">>
LowerCase == <<"a", "b", "c", "d", "e", "f", "g", "h", "i", "j", "k", "l", "m",
               "n", "o", "p", "q", "r", "s", "t", "u", "v", "w", "x", "y", "z">>

\* str.lower() on one character
Lower(c) ==
    IF \E i \in 1..Len(UpperCase) : UpperCase[i] = c
    THEN LowerCase[CHOOSE i \in 1..Len(UpperCase) : UpperCase[i] = c]
    ELSE c

\* 'check_' + re.sub(r'[-]', '_', self.signature).lower()
ValidatorName(signature) ==
    <<"c", "h", "e", "c", "k", "_">> \o
    [i \in 1..Len(signature) |-> Lower(IF signature[i] = "-" THEN "_" ELSE signature[i])]

\* the name of the one verifier of the signatures module
check_x_hub_signature_name ==
    <<"c", "h", "e", "c", "k", "_", "x", "_", "h", "u", "b", "_",
      "s", "i", "g", "n", "a", "t", "u", "r", "e">>

\* the attributes of the signatures module
SignaturesModule == {check_x_hub_signature_name}

\* the keyed digest of a body, as the sender writes it in the header
Digest(data) == "sha1=" \o data

\* signatures.check_x_hub_signature(signature, message)
check_x_hub_signature(signature, message) == signature = Digest(message)

\* calling the attribute `validator` of the signatures module
CallVerifier(validator, signature_value, data) ==
    IF validator = check_x_hub_signature_name
    THEN check_x_hub_signature(signature_value, data)
    ELSE FALSE

(***************************************************************************)
(* The request context (flask.request): headers, raw body, content type.   *)
(***************************************************************************)
JsonBody == "{\"a\": 1}"
ArrayBody == "[1, 2]"
FormBody == "a=1&b=2"
Bodies == {JsonBody, ArrayBody, FormBody}

ContentTypes ==
    {"application/json", "application/x-www-form-urlencoded", "application/python-pickle",
     "application/json; charset=utf-8"}

\* the header sets a request may carry: none of the scheme headers, an empty
\* X-Hub-Signature, the digest of the JSON body (a wrong one for the other
\* bodies), an empty X-Foo, or X-Foo with a value
HeaderSets ==
    { <<>> ,
      [h \in {XHubSignature} |-> ""],
      [h \in {XHubSignature} |-> Digest(JsonBody)],
      [h \in {XFoo} |-> ""],
      [h \in {XFoo} |-> "token"] }

Requests == [headers : HeaderSets, data : Bodies, content_type : ContentTypes]

\* request.headers.get(name, None)
HeadersGet(headers, name) ==
    IF name \in DOMAIN headers THEN PyStr(headers[name]) ELSE PyNone

\* json.loads on the bodies of the model: the decoded value, or no value
JsonLoads(data) ==
    CASE data = JsonBody -> <<PyDict([a |-> PyInt(1)])>>
      [] data = ArrayBody -> <<PyList(<<PyInt(1), PyInt(2)>>)>>
      [] OTHER -> <<>>

\* request.get_json(): the decoded body; a body that is no JSON makes
\* on_json_loading_failed raise BadRequest (tests/test_api.py expects 400)
get_json(req) ==
    IF JsonLoads(req.data) # <<>>
    THEN Return(JsonLoads(req.data)[1])
    ELSE Raise("BadRequest", PyStr("Failed to decode JSON object"))

\* request.form: the fields of a form-encoded body, in order, as <<name, value>>
Form(data) ==
    CASE data = FormBody -> << <<"a", "1">>, <<"b", "2">> >>
      [] OTHER -> << <<data, "">> >>

\* the values of field k of a MultiDict, in order
RECURSIVE GetList(_, _)
GetList(form, k) ==
    IF form = <<>> THEN <<>>
    ELSE (IF form[1][1] = k THEN <<PyStr(form[1][2])>> ELSE <<>>) \o GetList(Tail(form), k)

\* dict(request.form): every field name with the list of its values
DictOfForm(form) ==
    PyDict([k \in {form[i][1] : i \in 1..Len(form)} |-> PyList(GetList(form, k))])

(***************************************************************************)
(* Event                                                                   *)
(***************************************************************************)
\* Event.__init__(user_id=None, payload=None)
Event(user_id, payload) == [class |-> "Event", user_id |-> user_id, payload |-> payload]

\* Event.__getstate__
__getstate__(self) ==
    [k \in {"user_id", "payload"} |-> IF k = "user_id" THEN self.user_id ELSE self.payload]

\* a __setstate__ that restores the user id only
SetStateForgetsPayload(self, state) ==
    [self EXCEPT !.user_id = state["user_id"]]

\* Event.__setstate__: the event after the assignment of both attributes
__setstate__(self, state) ==
    [self EXCEPT !.user_id = state["user_id"], !.payload = state["payload"]]

(***************************************************************************)
(* Receiver objects.  A receiver is named by its reference; the objects    *)
(* are immutable after construction.                                       *)
(***************************************************************************)
Receivers == {"plain", "signed", "foo", "failing", "deferred"}

\* Receiver.__init__(fn, signature='')
Receiver(fn, signature) ==
    [class |-> "Receiver", _callable |-> fn, signature |-> signature,
     _task |-> "", _options |-> <<>>]

\* CeleryReceiver.__init__(task_callable, signature='', **options)
CeleryReceiver(task_callable, signature, options) ==
    [Receiver(task_callable, signature) EXCEPT
        !.class = "CeleryReceiver", !._task = task_callable, !._options = options]

\* the receivers the application constructs
Object(ref) ==
    CASE ref = "plain" -> Receiver("handler", NoSignature)
      [] ref = "signed" -> Receiver("handler", XHubSignature)
      [] ref = "foo" -> Receiver("handler", XFoo)
      [] ref = "failing" -> Receiver("failing_handler", NoSignature)
      [] ref = "deferred" ->
            CeleryReceiver("task", XHubSignature, [k \in {"queue"} |-> "webhooks"])

\* fn(event) for the callables of the model: "failing_handler" raises
CallHandler(fn, event) ==
    IF fn = "failing_handler"
    THEN Raise("HandlerException", PyStr("handler failed"))
    ELSE Return(PyNone)

(***************************************************************************)
(* The receiver's pipeline.  Each operator gives the run of one call on    *)
(* receiver object `self` under request `req`: its outcome, the verifier   *)
(* calls it made (`verifier`), the handler calls it made (`calls`) and the *)
(* messages it handed to the task's apply_async (`sent`).                  *)
(***************************************************************************)
Run(outcome, verifier, calls, sent) ==
    [outcome |-> outcome, verifier |-> verifier, calls |-> calls, sent |-> sent]

\* a check_signature that accepts any non-empty header without the verifier
CheckSignatureTrustsHeader(self, req) ==
    IF Len(self.signature) = 0
    THEN Run(Return(PyBool(TRUE)), <<>>, <<>>, <<>>)
    ELSE Run(Return(PyBool(Truthy(HeadersGet(req.headers, self.signature)))), <<>>, <<>>, <<>>)

\* a check_signature without the early return for the empty scheme: it reads
\* the header named '' and finds none
CheckSignatureNoEarlyReturn(self, req) ==
    LET signature_value == HeadersGet(req.headers, self.signature)
        validator == ValidatorName(self.signature)
    IN  IF Truthy(signature_value)
        THEN IF validator \notin SignaturesModule
             THEN Run(Raise("AttributeError", PyStr("signatures")), <<>>, <<>>, <<>>)
             ELSE Run(Return(PyBool(CallVerifier(validator, signature_value.v, req.data))),
                      << <<validator, signature_value.v, req.data>> >>, <<>>, <<>>)
        ELSE Run(Return(PyBool(FALSE)), <<>>, <<>>, <<>>)

\* a check_signature that looks the verifier up before it reads the header
CheckSignatureResolvesFirst(self, req) ==
    IF Len(self.signature) = 0
    THEN Run(Return(PyBool(TRUE)), <<>>, <<>>, <<>>)
    ELSE LET signature_value == HeadersGet(req.headers, self.signature)
             validator == ValidatorName(self.signature)
         IN  IF validator \notin SignaturesModule
             THEN Run(Raise("AttributeError", PyStr("signatures")), <<>>, <<>>, <<>>)
             ELSE IF Truthy(signature_value)
             THEN Run(Return(PyBool(CallVerifier(validator, signature_value.v, req.data))),
                      << <<validator, signature_value.v, req.data>> >>, <<>>, <<>>)
             ELSE Run(Return(PyBool(FALSE)), <<>>, <<>>, <<>>)

\* Receiver.check_signature
check_signature(self, req) ==
    IF Len(self.signature) = 0
    THEN Run(Return(PyBool(TRUE)), <<>>, <<>>, <<>>)
    ELSE LET signature_value == HeadersGet(req.headers, self.signature)
             validator == ValidatorName(self.signature)
         IN  IF Truthy(signature_value)
             THEN IF validator \notin SignaturesModule
                  THEN \* getattr(signatures, validator)
                       Run(Raise("AttributeError", PyStr("signatures")), <<>>, <<>>, <<>>)
                  ELSE Run(Return(PyBool(CallVerifier(validator, signature_value.v, req.data))),
                           << <<validator, signature_value.v, req.data>> >>, <<>>, <<>>)
             ELSE Run(Return(PyBool(FALSE)), <<>>, <<>>, <<>>)

\* an extract_payload that rejects the content type before it checks the signature
ExtractPayloadContentTypeFirst(self, req) ==
    LET checked == check_signature(self, req)
    IN  IF req.content_type \notin {"application/json", "application/x-www-form-urlencoded"}
        THEN Run(Raise("InvalidPayload", PyStr(req.content_type)), <<>>, <<>>, <<>>)
        ELSE IF Raised(checked.outcome) THEN checked
        ELSE IF ~checked.outcome.value.v
        THEN [checked EXCEPT !.outcome = Raise("InvalidSignature", PyStr("Invalid Signature"))]
        ELSE IF req.content_type = "application/json"
        THEN [checked EXCEPT !.outcome = get_json(req)]
        ELSE [checked EXCEPT !.outcome = Return(DictOfForm(Form(req.data)))]

\* an extract_payload that reads the form of every request that is not JSON
ExtractPayloadFormByDefault(self, req) ==
    LET checked == check_signature(self, req)
    IN  IF Raised(checked.outcome) THEN checked
        ELSE IF ~checked.outcome.value.v
        THEN [checked EXCEPT !.outcome = Raise("InvalidSignature", PyStr("Invalid Signature"))]
        ELSE IF req.content_type = "application/json"
        THEN [checked EXCEPT !.outcome = get_json(req)]
        ELSE [checked EXCEPT !.outcome = Return(DictOfForm(Form(req.data)))]

\* an extract_payload that catches the failure of get_json and reports it as
\* InvalidPayload
ExtractPayloadWrapsParseError(self, req) ==
    LET checked == check_signature(self, req)
    IN  IF Raised(checked.outcome) THEN checked
        ELSE IF ~checked.outcome.value.v
        THEN [checked EXCEPT !.outcome = Raise("InvalidSignature", PyStr("Invalid Signature"))]
        ELSE IF req.content_type = "application/json"
        THEN [checked EXCEPT !.outcome =
                IF Raised(get_json(req))
                THEN Raise("InvalidPayload", PyStr(req.content_type))
                ELSE get_json(req)]
        ELSE IF req.content_type = "application/x-www-form-urlencoded"
        THEN [checked EXCEPT !.outcome = Return(DictOfForm(Form(req.data)))]
        ELSE [checked EXCEPT !.outcome = Raise("InvalidPayload", PyStr(req.content_type))]

\* Receiver.extract_payload
extract_payload(self, req) ==
    LET checked == check_signature(self, req)
    IN  IF Raised(checked.outcome) THEN checked
        ELSE IF ~checked.outcome.value.v
        THEN [checked EXCEPT !.outcome = Raise("InvalidSignature", PyStr("Invalid Signature"))]
        ELSE IF req.content_type = "application/json"
        THEN [checked EXCEPT !.outcome = get_json(req)]
        ELSE IF req.content_type = "application/x-www-form-urlencoded"
        THEN [checked EXCEPT !.outcome = Return(DictOfForm(Form(req.data)))]
        ELSE [checked EXCEPT !.outcome = Raise("InvalidPayload", PyStr(req.content_type))]

\* a _create_event that checks the signature itself before it extracts the
\* payload, so that the check runs twice
CreateEventChecksFirst(self, user_id, req) ==
    LET checked == check_signature(self, req)
        extracted == extract_payload(self, req)
    IN  IF Raised(checked.outcome) THEN checked
        ELSE IF Raised(extracted.outcome)
        THEN [extracted EXCEPT !.verifier = checked.verifier \o extracted.verifier]
        ELSE [extracted EXCEPT
                !.verifier = checked.verifier \o extracted.verifier,
                !.outcome = Return(Event(PyInt(user_id), extracted.outcome.value))]

\* Receiver._create_event: the outcome holds the Event
_create_event(self, user_id, req) ==
    LET extracted == extract_payload(self, req)
    IN  IF Raised(extracted.outcome) THEN extracted
        ELSE [extracted EXCEPT !.outcome = Return(Event(PyInt(user_id), extracted.outcome.value))]

\* the message of task.apply_async(args=[...], **options)
Message(task, args, options) == [task |-> task, args |-> args, options |-> options]

\* a consume_event that builds the event twice and calls the handler on each
ConsumeEventCallsTwice(self, user_id, req) ==
    LET created == _create_event(self, user_id, req)
    IN  IF Raised(created.outcome) THEN created
        ELSE LET event == created.outcome.value
             IN  [created EXCEPT !.calls = <<event, event>>,
                                 !.outcome = CallHandler(self._callable, event)]

\* a consume_event that returns the event it built
ConsumeEventReturnsEvent(self, user_id, req) ==
    LET created == _create_event(self, user_id, req)
    IN  IF Raised(created.outcome) THEN created
        ELSE LET event == created.outcome.value
             IN  [created EXCEPT !.calls = <<event>>,
                                 !.outcome = IF Raised(CallHandler(self._callable, event))
                                             THEN CallHandler(self._callable, event)
                                             ELSE Return(event)]

\* a consume_event that catches what the handler raises
ConsumeEventSwallows(self, user_id, req) ==
    LET created == _create_event(self, user_id, req)
    IN  IF Raised(created.outcome) THEN created
        ELSE LET event == created.outcome.value
             IN  [created EXCEPT !.calls = <<event>>, !.outcome = Return(PyNone)]

\* Receiver.consume_event
ReceiverConsumeEvent(self, user_id, req) ==
    LET created == _create_event(self, user_id, req)
    IN  IF Raised(created.outcome) THEN created
        ELSE LET event == created.outcome.value
             IN  [created EXCEPT !.calls = <<event>>,
                                 !.outcome = CallHandler(self._callable, event)]

\* a CeleryReceiver.consume_event that calls the task inline (task(...)
\* instead of task.apply_async(...))
CeleryConsumeEventInline(self, user_id, req) ==
    LET created == _create_event(self, user_id, req)
    IN  IF Raised(created.outcome) THEN created
        ELSE LET event == created.outcome.value
             IN  [created EXCEPT !.calls = <<event>>,
                                 !.outcome = CallHandler(self._callable, event)]

\* CeleryReceiver.consume_event
CeleryReceiverConsumeEvent(self, user_id, req) ==
    LET created == _create_event(self, user_id, req)
    IN  IF Raised(created.outcome) THEN created
        ELSE LET event == created.outcome.value
             IN  [created EXCEPT
                    !.sent = <<Message(self._task, <<__getstate__(event)>>, self._options)>>,
                    !.outcome = Return(PyNone)]

\* self.consume_event(user_id), dispatched on the class of self
consume_event(self, user_id, req) ==
    IF self.class = "CeleryReceiver"
    THEN CeleryReceiverConsumeEvent(self, user_id, req)
    ELSE ReceiverConsumeEvent(self, user_id, req)

\* the second statement of Receiver.consume_event: self._callable(event), on
\* the run that created the event
CallCallable(self, created) ==
    [created EXCEPT !.calls = <<created.outcome.value>>,
                    !.outcome = CallHandler(self._callable, created.outcome.value)]

\* the second statement of CeleryReceiver.consume_event:
\* self._task.apply_async(args=[event.__getstate__()], **self._options)
ApplyAsync(self, created) ==
    [created EXCEPT
        !.sent = <<Message(self._task, <<__getstate__(created.outcome.value)>>, self._options)>>,
        !.outcome = Return(PyNone)]

(***************************************************************************)
(* The registry (current_webhooks.receivers) and the hook URL.             *)
(***************************************************************************)
Ids == {"github", "test-receiver"}
AccessTokens == {"token-1", "token-2"}

\* a reference to a receiver object, as a Python value
PyRef(ref) == [t |-> "Receiver", v |-> ref]

\* the reference to the dict object current_webhooks.receivers
ReceiversRef == [t |-> "ref", v |-> "current_webhooks.receivers"]

\* a get that answers None for an unknown id (dict.get instead of dict[...])
GetReturnsNone(registry, receiver_id) ==
    IF receiver_id \in DOMAIN registry
    THEN Return(PyRef(registry[receiver_id]))
    ELSE Return(PyNone)

\* a get without the try/except: the KeyError of the dict escapes
GetRaisesKeyError(registry, receiver_id) ==
    IF receiver_id \in DOMAIN registry
    THEN Return(PyRef(registry[receiver_id]))
    ELSE Raise("KeyError", PyStr(receiver_id))

\* Receiver.get, on the dict `registry`
get(registry, receiver_id) ==
    IF receiver_id \in DOMAIN registry
    THEN Return(PyRef(registry[receiver_id]))
    ELSE Raise("ReceiverDoesNotExist", PyStr(receiver_id))

\* Receiver.all: the dict object itself, no copy
all == Return(ReceiversRef)

\* current_webhooks.register(receiver_id, receiver): store or overwrite
StateRegister(registry, receiver_id, receiver) ==
    [k \in DOMAIN registry \cup {receiver_id} |->
        IF k = receiver_id THEN receiver ELSE registry[k]]

\* current_webhooks.unregister(receiver_id): remove the entry if present
StateUnregister(registry, receiver_id) ==
    [k \in DOMAIN registry \ {receiver_id} |-> registry[k]]

\* URL patterns of WEBHOOKS_DEBUG_RECEIVER_URLS: literal text and %(key)s slots
Lit(text) == [lit |-> text]
Slot(key) == [key |-> key]
PyPattern(segments) == [t |-> "pattern", v |-> segments]
UltrahookPattern == PyPattern(<<Lit("http://github.userid.ultrahook.com")>>)
TokenPattern == PyPattern(<<Lit("http://tunnel.example.org/?access_token="), Slot("token")>>)

\* url_pattern % mapping
RECURSIVE Format(_, _)
Format(segments, mapping) ==
    IF segments = <<>> THEN ""
    ELSE (IF "lit" \in DOMAIN segments[1] THEN segments[1].lit ELSE mapping[segments[1].key])
         \o Format(Tail(segments), mapping)

\* url_for('invenio_webhooks.event_list', receiver_id=..., access_token=..., _external=True)
url_for(receiver_id, access_token) ==
    "http://localhost/hooks/receivers/" \o receiver_id \o "/events/?access_token=" \o access_token

\* the values of WEBHOOKS_DEBUG_RECEIVER_URLS (PyNone: the key is not configured)
DebugReceiverUrls ==
    { PyNone,
      PyDict(<<>>),
      PyDict([k \in {"github"} |-> UltrahookPattern]),
      PyDict([k \in {"github"} |-> TokenPattern]),
      PyDict([k \in {"test-receiver"} |-> TokenPattern]),
      PyDict([k \in {"github"} |-> PyStr("")]) }

\* current_app: its debug and testing flags and the configured override table
Apps == [debug : BOOLEAN, testing : BOOLEAN, WEBHOOKS_DEBUG_RECEIVER_URLS : DebugReceiverUrls]

\* dict.get(key, None)
DictGet(d, key) == IF key \in DOMAIN d.v THEN d.v[key] ELSE PyNone

\* a get_hook_url that consults the override table before it looks the
\* receiver up
GetHookUrlOverrideFirst(registry, app, receiver_id, access_token) ==
    IF (app.debug \/ app.testing) /\ Truthy(app.WEBHOOKS_DEBUG_RECEIVER_URLS)
            /\ Truthy(DictGet(app.WEBHOOKS_DEBUG_RECEIVER_URLS, receiver_id))
    THEN LET url_pattern == DictGet(app.WEBHOOKS_DEBUG_RECEIVER_URLS, receiver_id)
         IN  Return(PyStr(Format(url_pattern.v, [k \in {"token"} |-> access_token])))
    ELSE IF Raised(get(registry, receiver_id)) THEN get(registry, receiver_id)
    ELSE Return(PyStr(url_for(receiver_id, access_token)))

\* Receiver.get_hook_url
get_hook_url(registry, app, receiver_id, access_token) ==
    IF Raised(get(registry, receiver_id)) THEN get(registry, receiver_id)
    ELSE IF (app.debug \/ app.testing) /\ Truthy(app.WEBHOOKS_DEBUG_RECEIVER_URLS)
            /\ Truthy(DictGet(app.WEBHOOKS_DEBUG_RECEIVER_URLS, receiver_id))
    THEN LET url_pattern == DictGet(app.WEBHOOKS_DEBUG_RECEIVER_URLS, receiver_id)
         IN  Return(PyStr(Format(url_pattern.v, [k \in {"token"} |-> access_token])))
    ELSE Return(PyStr(url_for(receiver_id, access_token)))

(***************************************************************************)
(* State                                                                   *)
(***************************************************************************)
VARIABLES
    receivers,   \* current_webhooks.receivers: receiver id -> receiver reference
    registered,  \* history: for each id, the receiver of the latest register() not yet unregistered
    returned,    \* the value the caller holds from its latest Receiver.all()
    request,     \* the request context (flask.request), NoRequest outside a request
    queue,       \* the messages handed to apply_async and not yet taken by a worker
    last,        \* the latest call: operation, arguments and its run
    event,       \* an Event object
    pickled,     \* <<>> or one state mapping of an Event, with the Event it was taken of
    restored,    \* <<>> or one Event rebuilt from a state mapping, with the Event it stems of
    inflight     \* the request a second thread is handling, step by step

vars == <<receivers, registered, returned, request, queue, last, event, pickled, restored,
          inflight>>

NoRequest == [headers |-> <<>>, data |-> "", content_type |-> ""]
NoCall == [op |-> "", args |-> <<>>, run |-> Run(Return(PyNone), <<>>, <<>>, <<>>)]

UserIds == {1, 2}

\* no request is in flight
NoInflight ==
    [pc |-> "idle", receiver_id |-> "", user_id |-> 0, request |-> NoRequest, self |-> "",
     run |-> Run(Return(PyNone), <<>>, <<>>, <<>>), registry |-> <<>>]

\* the latest call, as the state records it
Call(op, args, run) == [op |-> op, args |-> args, run |-> run]
Plain(outcome) == Run(outcome, <<>>, <<>>, <<>>)

Init ==
    /\ receivers = <<>>
    /\ registered = <<>>
    /\ returned = PyNone
    /\ request = NoRequest
    /\ queue = <<>>
    /\ last = NoCall
    /\ event = Event(PyNone, PyNone)
    /\ pickled = <<>>
    /\ restored = <<>>
    /\ inflight = NoInflight

(***************************************************************************)
(* Registry operations                                                     *)
(***************************************************************************)
\* Receiver.register(receiver_id, receiver)
Register(receiver_id, receiver) ==
    /\ receivers' = StateRegister(receivers, receiver_id, receiver)
    /\ registered' = [k \in DOMAIN registered \cup {receiver_id} |->
                        IF k = receiver_id THEN receiver ELSE registered[k]]
    /\ last' = Call("register", [receiver_id |-> receiver_id, receiver |-> receiver],
                    Plain(Return(PyNone)))
    /\ UNCHANGED <<returned, request, queue, event, pickled, restored, inflight>>

\* Receiver.unregister(receiver_id)
Unregister(receiver_id) ==
    /\ receivers' = StateUnregister(receivers, receiver_id)
    /\ registered' = [k \in DOMAIN registered \ {receiver_id} |-> registered[k]]
    /\ last' = Call("unregister", [receiver_id |-> receiver_id], Plain(Return(PyNone)))
    /\ UNCHANGED <<returned, request, queue, event, pickled, restored, inflight>>

\* a get that takes the entry out of the registry (dict.pop instead of dict[...])
GetPops(receiver_id) ==
    /\ last' = Call("get", [receiver_id |-> receiver_id], Plain(get(receivers, receiver_id)))
    /\ receivers' = StateUnregister(receivers, receiver_id)
    /\ UNCHANGED <<registered, returned, request, queue, event, pickled, restored, inflight>>

\* Receiver.get(receiver_id)
Get(receiver_id) ==
    /\ last' = Call("get", [receiver_id |-> receiver_id], Plain(get(receivers, receiver_id)))
    /\ UNCHANGED <<receivers, registered, returned, request, queue, event, pickled, restored,
                   inflight>>

\* Receiver.all()
All ==
    /\ last' = Call("all", <<>>, Plain(all))
    /\ returned' = all.value
    /\ UNCHANGED <<receivers, registered, request, queue, event, pickled, restored, inflight>>

\* Receiver.get_hook_url(receiver_id, access_token) under the application `app`
GetHookUrl(app, receiver_id, access_token) ==
    /\ last' = Call("get_hook_url",
                    [app |-> app, receiver_id |-> receiver_id, access_token |-> access_token],
                    Plain(get_hook_url(receivers, app, receiver_id, access_token)))
    /\ UNCHANGED <<receivers, registered, returned, request, queue, event, pickled, restored,
                   inflight>>

\* the caller of all() changes the structure it was given: it stores `receiver`
\* under `receiver_id` (d[receiver_id] = receiver).  The structure is the
\* registry's own dict when all() gave a reference to it, the caller's own
\* dict otherwise.
SetItemReturned(receiver_id, receiver) ==
    /\ returned # PyNone
    /\ IF returned = ReceiversRef
       THEN /\ receivers' = StateRegister(receivers, receiver_id, receiver)
            /\ UNCHANGED returned
       ELSE /\ returned' = PyDict(StateRegister(returned.v, receiver_id, receiver))
            /\ UNCHANGED receivers
    /\ last' = Call("returned.__setitem__",
                    [receiver_id |-> receiver_id, receiver |-> receiver], Plain(Return(PyNone)))
    /\ UNCHANGED <<registered, request, queue, event, pickled, restored, inflight>>

\* the caller of all() deletes an entry of the structure it was given
\* (del d[receiver_id])
DelItemReturned(receiver_id) ==
    /\ returned # PyNone
    /\ IF returned = ReceiversRef
       THEN /\ receiver_id \in DOMAIN receivers
            /\ receivers' = StateUnregister(receivers, receiver_id)
            /\ UNCHANGED returned
       ELSE /\ receiver_id \in DOMAIN returned.v
            /\ returned' = PyDict(StateUnregister(returned.v, receiver_id))
            /\ UNCHANGED receivers
    /\ last' = Call("returned.__delitem__", [receiver_id |-> receiver_id], Plain(Return(PyNone)))
    /\ UNCHANGED <<registered, request, queue, event, pickled, restored, inflight>>

(***************************************************************************)
(* Receiver operations, under the request context                          *)
(***************************************************************************)
\* a request arrives: the request layer opens its context
RequestContext(req) ==
    /\ request' = req
    /\ last' = NoCall
    /\ UNCHANGED <<receivers, registered, returned, queue, event, pickled, restored, inflight>>

\* receiver.check_signature()
CheckSignature(ref) ==
    /\ request # NoRequest
    /\ last' = Call("check_signature", [self |-> ref], check_signature(Object(ref), request))
    /\ UNCHANGED <<receivers, registered, returned, request, queue, event, pickled, restored,
                   inflight>>

\* receiver.extract_payload()
ExtractPayload(ref) ==
    /\ request # NoRequest
    /\ last' = Call("extract_payload", [self |-> ref], extract_payload(Object(ref), request))
    /\ UNCHANGED <<receivers, registered, returned, request, queue, event, pickled, restored,
                   inflight>>

\* receiver.consume_event(user_id): the handler runs inside the call, the
\* messages of apply_async join the queue
ConsumeEvent(ref, user_id) ==
    LET run == consume_event(Object(ref), user_id, request)
    IN  /\ request # NoRequest
        /\ Len(queue) + Len(run.sent) <= MaxQueue
        /\ last' = Call("consume_event", [self |-> ref, user_id |-> user_id], run)
        /\ queue' = queue \o run.sent
        /\ UNCHANGED <<receivers, registered, returned, request, event, pickled, restored,
                       inflight>>

\* a worker of the task queue takes the oldest message
WorkerTakes ==
    /\ queue # <<>>
    /\ queue' = Tail(queue)
    /\ last' = Call("worker", [message |-> Head(queue)], Plain(Return(PyNone)))
    /\ UNCHANGED <<receivers, registered, returned, request, event, pickled, restored, inflight>>

(***************************************************************************)
(* A request handled in a second thread, one statement at a time, while    *)
(* the first thread registers and unregisters: the request layer gets the  *)
(* receiver of the id in the URL and calls its consume_event, which        *)
(* creates the event and then hands it on.                                 *)
(***************************************************************************)
\* receiver = Receiver.get(receiver_id), for the request `req` of user `user_id`
PostGet(receiver_id, user_id, req) ==
    LET got == get(receivers, receiver_id)
    IN  /\ inflight.pc = "idle"
        /\ inflight' = [pc |-> IF Raised(got) THEN "done" ELSE "got",
                        receiver_id |-> receiver_id, user_id |-> user_id, request |-> req,
                        self |-> IF Raised(got) THEN "" ELSE got.value.v,
                        run |-> Plain(got), registry |-> receivers]
        /\ UNCHANGED <<receivers, registered, returned, request, queue, last, event, pickled,
                       restored>>

\* event = self._create_event(user_id), inside receiver.consume_event(user_id)
PostCreateEvent ==
    LET created == _create_event(Object(inflight.self), inflight.user_id, inflight.request)
    IN  /\ inflight.pc = "got"
        /\ inflight' = [inflight EXCEPT
                            !.pc = IF Raised(created.outcome) THEN "done" ELSE "created",
                            !.run = created, !.registry = receivers]
        /\ UNCHANGED <<receivers, registered, returned, request, queue, last, event, pickled,
                       restored>>

\* a dispatch that looks the receiver of the id up again and hands the event
\* to what it finds
PostDispatchLooksUpAgain ==
    LET got == get(receivers, inflight.receiver_id)
        run == IF Raised(got) THEN [inflight.run EXCEPT !.outcome = got]
               ELSE IF Object(got.value.v).class = "CeleryReceiver"
               THEN ApplyAsync(Object(got.value.v), inflight.run)
               ELSE CallCallable(Object(got.value.v), inflight.run)
    IN  /\ inflight.pc = "created"
        /\ Len(queue) + Len(run.sent) <= MaxQueue
        /\ inflight' = [inflight EXCEPT !.pc = "done", !.run = run, !.registry = receivers]
        /\ queue' = queue \o run.sent
        /\ UNCHANGED <<receivers, registered, returned, request, last, event, pickled, restored>>

\* self._callable(event), or self._task.apply_async(...) of a CeleryReceiver
PostDispatch ==
    LET run == IF Object(inflight.self).class = "CeleryReceiver"
               THEN ApplyAsync(Object(inflight.self), inflight.run)
               ELSE CallCallable(Object(inflight.self), inflight.run)
    IN  /\ inflight.pc = "created"
        /\ Len(queue) + Len(run.sent) <= MaxQueue
        /\ inflight' = [inflight EXCEPT !.pc = "done", !.run = run, !.registry = receivers]
        /\ queue' = queue \o run.sent
        /\ UNCHANGED <<receivers, registered, returned, request, last, event, pickled, restored>>

\* the request layer answers and the thread is free again
PostRespond ==
    /\ inflight.pc = "done"
    /\ inflight' = NoInflight
    /\ UNCHANGED <<receivers, registered, returned, request, queue, last, event, pickled,
                   restored>>

(***************************************************************************)
(* Event operations                                                        *)
(***************************************************************************)
\* the payload shapes of the model: objects, arrays, scalars, nested structures
EventPayloads ==
    { PyNone, PyBool(TRUE), PyInt(3), PyStr("somevalue"),
      PyList(<<PyInt(1), PyInt(2)>>),
      PyDict([a |-> PyInt(1)]),
      PyDict([a |-> PyList(<<PyDict([b |-> PyNone])>>)]),
      DictOfForm(Form(FormBody)) }

EventUserIds == {PyNone} \cup {PyInt(u) : u \in UserIds}

\* Event(user_id, payload)
NewEvent(user_id, payload) ==
    /\ event' = Event(user_id, payload)
    /\ UNCHANGED <<receivers, registered, returned, request, queue, last, pickled, restored,
                   inflight>>

\* event.__getstate__()
GetState ==
    /\ pickled' = <<[of |-> event, state |-> __getstate__(event)]>>
    /\ UNCHANGED <<receivers, registered, returned, request, queue, last, event, restored,
                   inflight>>

\* Event().__setstate__(state), on a fresh Event
SetState ==
    /\ pickled # <<>>
    /\ restored' = <<[of |-> pickled[1].of,
                      event |-> __setstate__(Event(PyNone, PyNone), pickled[1].state)]>>
    /\ UNCHANGED <<receivers, registered, returned, request, queue, last, event, pickled, inflight>>

(***************************************************************************)
(* Specifications                                                          *)
(***************************************************************************)
\* the registry and the hook URL
NextRegistry ==
    \/ \E receiver_id \in Ids, receiver \in Receivers : Register(receiver_id, receiver)
    \/ \E receiver_id \in Ids : Unregister(receiver_id)
    \/ \E receiver_id \in Ids : Get(receiver_id)
    \/ All
    \/ \E app \in Apps, receiver_id \in Ids, access_token \in AccessTokens :
            GetHookUrl(app, receiver_id, access_token)

\* a caller that changes what all() returned
NextCaller ==
    \/ \E receiver_id \in Ids, receiver \in Receivers : SetItemReturned(receiver_id, receiver)
    \/ \E receiver_id \in Ids : DelItemReturned(receiver_id)

\* the receivers under requests, and the task queue's worker
NextReceiver ==
    \/ \E req \in Requests : RequestContext(req)
    \/ \E ref \in Receivers : CheckSignature(ref)
    \/ \E ref \in Receivers : ExtractPayload(ref)
    \/ \E ref \in Receivers, user_id \in UserIds : ConsumeEvent(ref, user_id)
    \/ WorkerTakes

\* events and their state mappings
NextEvent ==
    \/ \E user_id \in EventUserIds, payload \in EventPayloads : NewEvent(user_id, payload)
    \/ GetState
    \/ SetState

\* the applications of the core scenario: override off, override on
CoreApps ==
    { [debug |-> FALSE, testing |-> FALSE, WEBHOOKS_DEBUG_RECEIVER_URLS |-> PyNone],
      [debug |-> TRUE, testing |-> FALSE,
       WEBHOOKS_DEBUG_RECEIVER_URLS |-> PyDict([k \in {"github"} |-> TokenPattern])] }

\* the core operations together: one receiver registered under one id and
\* removed again, lookups and hook URLs of both ids, and every receiver
\* operation under every request
NextCore ==
    \/ Register("github", "plain")
    \/ Unregister("github")
    \/ \E receiver_id \in Ids : Get(receiver_id)
    \/ \E app \in CoreApps, receiver_id \in Ids : GetHookUrl(app, receiver_id, "token-1")
    \/ NextReceiver

\* the requests of the frame scenario: a signed JSON request, a JSON request
\* without signature whose body is no JSON, and a request of an unsupported
\* content type that carries X-Foo
FrameRequests ==
    { [headers |-> [h \in {XHubSignature} |-> Digest(JsonBody)], data |-> JsonBody,
       content_type |-> "application/json"],
      [headers |-> <<>>, data |-> FormBody, content_type |-> "application/json"],
      [headers |-> [h \in {XFoo} |-> "token"], data |-> JsonBody,
       content_type |-> "application/python-pickle"] }

\* every operation of the registry and of the receivers, on a registry of a
\* synchronous and a deferred receiver, and a caller that changes what all()
\* returned
NextFrame ==
    \/ \E receiver_id \in Ids, receiver \in {"signed", "deferred"} :
            Register(receiver_id, receiver)
    \/ \E receiver_id \in Ids : Unregister(receiver_id)
    \/ \E receiver_id \in Ids : Get(receiver_id)
    \/ All
    \/ \E receiver_id \in Ids, receiver \in {"signed", "deferred"} :
            SetItemReturned(receiver_id, receiver)
    \/ \E receiver_id \in Ids : DelItemReturned(receiver_id)
    \/ \E app \in CoreApps, receiver_id \in Ids : GetHookUrl(app, receiver_id, "token-1")
    \/ \E req \in FrameRequests : RequestContext(req)
    \/ \E ref \in Receivers : CheckSignature(ref)
    \/ \E ref \in Receivers : ExtractPayload(ref)
    \/ \E ref \in Receivers, user_id \in UserIds : ConsumeEvent(ref, user_id)
    \/ WorkerTakes

\* the requests of the concurrent scenario: those of the frame scenario and
\* a JSON request without signature
ConcurrentRequests ==
    FrameRequests \cup
    { [headers |-> <<>>, data |-> JsonBody, content_type |-> "application/json"] }

\* one thread registers receivers under an id and unregisters it, while the
\* other handles a request step by step
NextConcurrent ==
    \/ \E receiver \in Receivers : Register("github", receiver)
    \/ Unregister("github")
    \/ \E receiver_id \in Ids, user_id \in UserIds, req \in ConcurrentRequests :
            PostGet(receiver_id, user_id, req)
    \/ PostCreateEvent
    \/ PostDispatch
    \/ PostRespond
    \/ WorkerTakes

Next == NextRegistry \/ NextCaller \/ NextReceiver \/ NextEvent \/ NextConcurrent

Spec == Init /\ [][Next]_vars
SpecRegistry == Init /\ [][NextRegistry]_vars
SpecCaller ==
    Init /\ [][\/ \E receiver_id \in Ids, receiver \in Receivers : Register(receiver_id, receiver)
               \/ \E receiver_id \in Ids : Unregister(receiver_id)
               \/ \E receiver_id \in Ids : Get(receiver_id)
               \/ All
               \/ NextCaller]_vars
SpecCore == Init /\ [][NextCore]_vars
SpecReceiver == Init /\ [][NextReceiver]_vars
SpecEvent == Init /\ [][NextEvent]_vars
SpecFrame == Init /\ [][NextFrame]_vars
SpecConcurrent == Init /\ [][NextConcurrent]_vars

(***************************************************************************)
(* Properties                                                              *)
(***************************************************************************)
\* the receiver object the latest call acted on, its outcome and its request
Self == Object(last.args.self)
Outcome == last.run.outcome
ReceiverOps == {"check_signature", "extract_payload", "consume_event"}
ReturnsTrue == Return(PyBool(TRUE))
ReturnsFalse == Return(PyBool(FALSE))

\* what the history of register/unregister calls says get(id) must give
ExpectedGet(receiver_id) ==
    IF receiver_id \in DOMAIN registered
    THEN Return(PyRef(registered[receiver_id]))
    ELSE Raise("ReceiverDoesNotExist", PyStr(receiver_id))

\* C1: after any sequence of register and unregister calls, get(id) returns
\* the receiver most recently passed to register(id, ...) when id is
\* registered (a second register of the id overwrites), and raises
\* ReceiverDoesNotExist for an id never registered or removed.
C1_GetReturnsLastRegistered ==
    /\ \A receiver_id \in Ids : get(receivers, receiver_id) = ExpectedGet(receiver_id)
    /\ last.op = "get" => Outcome = ExpectedGet(last.args.receiver_id)

\* get(id) returned the registered receiver, while the other id is unknown
C1_Witness ==
    /\ last.op = "get"
    /\ last.args.receiver_id = "github"
    /\ Outcome = Return(PyRef("deferred"))
    /\ Raised(get(receivers, "test-receiver"))

\* C2: with a non-empty scheme, check_signature() is False when the request
\* has no header of the scheme's name, False when the header is there and the
\* verifier returns false, and True only when the verifier, called with the
\* header value and the raw body, returns true.
C2_CheckSignatureConfiguredScheme ==
    (last.op = "check_signature" /\ Self.signature # NoSignature) =>
        /\ Self.signature \notin DOMAIN request.headers => Outcome = ReturnsFalse
        /\ ( /\ Self.signature = XHubSignature
             /\ XHubSignature \in DOMAIN request.headers
             /\ ~check_x_hub_signature(request.headers[XHubSignature], request.data) )
           => Outcome = ReturnsFalse
        /\ Outcome = ReturnsTrue =>
              /\ Self.signature = XHubSignature
              /\ XHubSignature \in DOMAIN request.headers
              /\ last.run.verifier = << <<check_x_hub_signature_name,
                                          request.headers[XHubSignature], request.data>> >>
              /\ check_x_hub_signature(request.headers[XHubSignature], request.data)

\* check_signature() passed on the verifier's word
C2_Witness ==
    /\ last.op = "check_signature"
    /\ Self.signature = XHubSignature
    /\ Outcome = ReturnsTrue
    /\ Len(last.run.verifier) = 1

\* C3: when the signature check fails, extract_payload and consume_event
\* raise InvalidSignature whatever the content type is; no handler is called
\* and no message is handed to the task.
C3_FailClosedOnSignature ==
    ( /\ last.op \in {"extract_payload", "consume_event"}
      /\ check_signature(Self, request).outcome = ReturnsFalse )
    => /\ Raised(Outcome)
       /\ Outcome.exc = "InvalidSignature"
       /\ last.run.calls = <<>>
       /\ last.run.sent = <<>>

\* consume_event of the deferred receiver under a request with a wrong
\* signature and an unsupported content type
C3_Witness ==
    /\ last.op = "consume_event"
    /\ last.args.self = "deferred"
    /\ request.headers = [h \in {XHubSignature} |-> Digest(JsonBody)]
    /\ request.data = FormBody
    /\ request.content_type = "application/python-pickle"
    /\ Raised(Outcome)
    /\ Outcome.exc = "InvalidSignature"
    /\ queue = <<>>

\* C4: consume_event(user_id) of a synchronous receiver, under a request that
\* passes the signature check and yields a payload, calls the handler exactly
\* once, inside the call, with an Event of that user id and that payload.
C4_SynchronousConsume ==
    ( /\ last.op = "consume_event"
      /\ Self.class = "Receiver"
      /\ ~Raised(extract_payload(Self, request).outcome) )
    => /\ Len(last.run.calls) = 1
       /\ last.run.calls[1].user_id = PyInt(last.args.user_id)
       /\ last.run.calls[1].payload = extract_payload(Self, request).outcome.value
       /\ last.run.sent = <<>>

\* the handler of the signed receiver was called with user 2 and the decoded body
C4_Witness ==
    /\ last.op = "consume_event"
    /\ last.args.self = "signed"
    /\ last.args.user_id = 2
    /\ last.run.calls = <<Event(PyInt(2), PyDict([a |-> PyInt(1)]))>>

\* C5: consume_event(user_id) of a CeleryReceiver never calls the handler
\* inline; under a valid request it hands exactly one message to apply_async,
\* whose one argument is the event's state (the mapping of the user id and
\* the payload) and whose options are the configured ones, and it returns
\* while the message still waits in the queue.
C5_DeferredConsume ==
    (last.op = "consume_event" /\ Self.class = "CeleryReceiver") =>
        /\ last.run.calls = <<>>
        /\ ~Raised(extract_payload(Self, request).outcome) =>
              /\ Outcome = Return(PyNone)
              /\ Len(last.run.sent) = 1
              /\ last.run.sent[1].task = Self._task
              /\ last.run.sent[1].options = Self._options
              /\ Len(last.run.sent[1].args) = 1
              /\ DOMAIN last.run.sent[1].args[1] = {"user_id", "payload"}
              /\ last.run.sent[1].args[1]["user_id"] = PyInt(last.args.user_id)
              /\ last.run.sent[1].args[1]["payload"] = extract_payload(Self, request).outcome.value
              /\ queue # <<>>
              /\ queue[Len(queue)] = last.run.sent[1]

\* the deferred receiver accepted a signed form request of user 1
C5_Witness ==
    /\ last.op = "consume_event"
    /\ last.args.self = "deferred"
    /\ last.args.user_id = 1
    /\ request.content_type = "application/x-www-form-urlencoded"
    /\ Len(last.run.sent) = 1
    /\ Len(queue) = 1

\* C6: after a passed signature check, extract_payload gives the decoded
\* body for application/json, the mapping of the form's field names to their
\* values for application/x-www-form-urlencoded, and raises InvalidPayload
\* with the content type for every other content type; it returns nothing else.
C6_ExtractPayloadDispatch ==
    (last.op = "extract_payload" /\ check_signature(Self, request).outcome = ReturnsTrue) =>
        /\ ( /\ request.content_type = "application/json"
             /\ JsonLoads(request.data) # <<>> )
           => Outcome = Return(JsonLoads(request.data)[1])
        /\ request.content_type = "application/x-www-form-urlencoded" =>
              /\ ~Raised(Outcome)
              /\ Outcome.value.t = "dict"
              /\ DOMAIN Outcome.value.v =
                    {Form(request.data)[i][1] : i \in 1..Len(Form(request.data))}
              /\ \A k \in DOMAIN Outcome.value.v :
                    Outcome.value.v[k] = PyList(GetList(Form(request.data), k))
        /\ request.content_type
              \notin {"application/json", "application/x-www-form-urlencoded"}
           => Outcome = Raise("InvalidPayload", PyStr(request.content_type))
        /\ ~Raised(Outcome) =>
              request.content_type \in {"application/json", "application/x-www-form-urlencoded"}

\* extract_payload read the two fields of a form
C6_Witness ==
    /\ last.op = "extract_payload"
    /\ request.content_type = "application/x-www-form-urlencoded"
    /\ request.data = FormBody
    /\ ~Raised(Outcome)
    /\ DOMAIN Outcome.value.v = {"a", "b"}

\* C7: a receiver with the empty scheme passes check_signature() under every
\* request, and no verifier is called.
C7_EmptySchemePasses ==
    (last.op = "check_signature" /\ Self.signature = NoSignature) =>
        /\ Outcome = ReturnsTrue
        /\ last.run.verifier = <<>>

\* the plain receiver passed under a request that carries an empty X-Hub-Signature
C7_Witness ==
    /\ last.op = "check_signature"
    /\ last.args.self = "plain"
    /\ request.headers = [h \in {XHubSignature} |-> ""]
    /\ Outcome = ReturnsTrue

\* C8: all() gives a read view: after the caller has changed the structure
\* all() returned, get(id) still answers what register and unregister made
\* it answer.
C8_AllIsReadView ==
    last.op \in {"returned.__setitem__", "returned.__delitem__"} =>
        \A receiver_id \in Ids : get(receivers, receiver_id) = ExpectedGet(receiver_id)

\* C9: an Event rebuilt from the state mapping of an Event equals it in user
\* id and in payload, for every payload shape; the mapping has exactly the
\* two keys of the user id and the payload.
C9_EventRoundTrip ==
    /\ pickled # <<>> =>
          /\ DOMAIN pickled[1].state = {"user_id", "payload"}
          /\ pickled[1].state["user_id"] = pickled[1].of.user_id
          /\ pickled[1].state["payload"] = pickled[1].of.payload
    /\ restored # <<>> =>
          /\ restored[1].event.user_id = restored[1].of.user_id
          /\ restored[1].event.payload = restored[1].of.payload
          /\ restored[1].event = restored[1].of

\* an Event with a nested payload went through the mapping and came back
C9_Witness ==
    /\ restored # <<>>
    /\ restored[1].of = Event(PyInt(2), PyDict([a |-> PyList(<<PyDict([b |-> PyNone])>>)]))
    /\ restored[1].event = restored[1].of

\* the operations C10 is about
CoreOps == {"get", "get_hook_url", "check_signature", "extract_payload", "consume_event"}

UnparsableJson ==
    /\ last.op \in {"extract_payload", "consume_event"}
    /\ check_signature(Self, request).outcome = ReturnsTrue
    /\ request.content_type = "application/json"
    /\ JsonLoads(request.data) = <<>>

\* C11 as stated: a request of a supported content type whose body does not
\* parse fails with InvalidPayload, the error kind of an unsupported content
\* type, and the handler is not invoked.
C11_ParseFailureIsInvalidPayload ==
    UnparsableJson =>
        /\ Raised(Outcome)
        /\ Outcome.exc = "InvalidPayload"
        /\ last.run.calls = <<>>
        /\ last.run.sent = <<>>

\* C11 as amended: under application/json with a body that is no JSON,
\* extract_payload and consume_event fail with the BadRequest of get_json,
\* which is not the InvalidPayload an unsupported content type gets; no
\* handler is called and no message is handed to the task.
C11_ParseFailureIsBadRequest ==
    UnparsableJson =>
        /\ Raised(Outcome)
        /\ Outcome.exc = "BadRequest"
        /\ Outcome # extract_payload(Self, [request EXCEPT
                            !.content_type = "application/python-pickle"]).outcome
        /\ last.run.calls = <<>>
        /\ last.run.sent = <<>>

\* consume_event of the plain receiver under application/json with a form body
C11_Witness ==
    /\ last.op = "consume_event"
    /\ last.args.self = "plain"
    /\ request.content_type = "application/json"
    /\ request.data = FormBody
    /\ Raised(Outcome)
    /\ Outcome.exc = "BadRequest"
    /\ last.run.calls = <<>>

\* the override template the application configures for the id: the entry of
\* WEBHOOKS_DEBUG_RECEIVER_URLS under the id, when the table is configured and
\* the entry is a template (an empty string is none)
OverrideOf(app, receiver_id) ==
    IF /\ app.WEBHOOKS_DEBUG_RECEIVER_URLS # PyNone
       /\ receiver_id \in DOMAIN app.WEBHOOKS_DEBUG_RECEIVER_URLS.v
       /\ app.WEBHOOKS_DEBUG_RECEIVER_URLS.v[receiver_id].t = "pattern"
    THEN <<app.WEBHOOKS_DEBUG_RECEIVER_URLS.v[receiver_id]>>
    ELSE <<>>

\* the URL a template stands for under the token
Substituted(pattern, access_token) ==
    CASE pattern = UltrahookPattern -> "http://github.userid.ultrahook.com"
      [] pattern = TokenPattern -> "http://tunnel.example.org/?access_token=" \o access_token

\* C12: get_hook_url raises ReceiverDoesNotExist for every id that is not
\* registered, in debug mode or not, with an override entry for the id or
\* without; for a registered id it returns the canonical URL outside debug
\* and test mode and in debug or test mode without an override entry for the
\* id, and the override template with the token substituted in debug or test
\* mode with an override entry for the id.
C12_GetHookUrl ==
    last.op = "get_hook_url" =>
        LET app == last.args.app
            receiver_id == last.args.receiver_id
            access_token == last.args.access_token
            canonical == "http://localhost/hooks/receivers/" \o receiver_id
                            \o "/events/?access_token=" \o access_token
        IN  /\ receiver_id \notin DOMAIN registered =>
                  Outcome = Raise("ReceiverDoesNotExist", PyStr(receiver_id))
            /\ (receiver_id \in DOMAIN registered /\ ~(app.debug \/ app.testing)) =>
                  Outcome = Return(PyStr(canonical))
            /\ ( /\ receiver_id \in DOMAIN registered
                 /\ app.debug \/ app.testing
                 /\ OverrideOf(app, receiver_id) = <<>> )
               => Outcome = Return(PyStr(canonical))
            /\ ( /\ receiver_id \in DOMAIN registered
                 /\ app.debug \/ app.testing
                 /\ OverrideOf(app, receiver_id) # <<>> )
               => Outcome = Return(PyStr(Substituted(OverrideOf(app, receiver_id)[1],
                                                      access_token)))

\* in test mode the registered id got its override template with the second
\* token in it, while the other id is not registered
C12_Witness ==
    /\ last.op = "get_hook_url"
    /\ last.args.app.testing
    /\ ~last.args.app.debug
    /\ last.args.receiver_id = "github"
    /\ "test-receiver" \notin DOMAIN receivers
    /\ Outcome = Return(PyStr("http://tunnel.example.org/?access_token=token-2"))

\* the string a scheme name spells
RECURSIVE SchemeName(_)
SchemeName(signature) ==
    IF signature = <<>> THEN "" ELSE signature[1] \o SchemeName(Tail(signature))

\* C13: each of the three error kinds carries what it is about:
\* ReceiverDoesNotExist the receiver id that was asked for, InvalidSignature
\* the scheme of the receiver, InvalidPayload the content type of the request.
C13_ErrorsCarryContext ==
    (last.op \in CoreOps /\ Raised(Outcome)) =>
        /\ Outcome.exc = "ReceiverDoesNotExist" =>
              Outcome.arg = PyStr(last.args.receiver_id)
        /\ Outcome.exc = "InvalidSignature" =>
              Outcome.arg = PyStr(SchemeName(Self.signature))
        /\ Outcome.exc = "InvalidPayload" =>
              Outcome.arg = PyStr(request.content_type)

\* consume_event of a synchronous receiver went through: nothing was raised
SynchronousSuccess ==
    /\ last.op = "consume_event"
    /\ Self.class = "Receiver"
    /\ ~Raised(Outcome)

C15_HandlerExceptionPropagates ==
    ( /\ last.op = "consume_event"
      /\ Self.class = "Receiver"
      /\ ~Raised(extract_payload(Self, request).outcome)
      /\ Raised(CallHandler(Self._callable,
                            Event(PyInt(last.args.user_id),
                                  extract_payload(Self, request).outcome.value))) )
    => /\ Outcome = Raise("HandlerException", PyStr("handler failed"))
       /\ Len(last.run.calls) = 1
       /\ Outcome = CallHandler(Self._callable, last.run.calls[1])
       /\ last.run.sent = <<>>

\* the failing handler was called with the event of user 2 and its exception
\* came out of consume_event
C15_Witness ==
    /\ last.op = "consume_event"
    /\ last.args.self = "failing"
    /\ last.run.calls = <<Event(PyInt(2), PyList(<<PyInt(1), PyInt(2)>>))>>
    /\ Raised(Outcome)
    /\ Outcome.exc = "HandlerException"

\* check_signature was called on a receiver whose scheme is not empty and
\* names no verifier of the signatures module
UnresolvableScheme ==
    /\ last.op = "check_signature"
    /\ Self.signature # NoSignature
    /\ ValidatorName(Self.signature) \notin SignaturesModule

\* C16 as stated: for a receiver whose non-empty scheme has no verifier,
\* check_signature ends in the same configuration failure under every
\* request, with the header or without, whatever the body; it never reports
\* a failed signature and never passes.
C16_UnresolvableAlwaysConfigurationError ==
    UnresolvableScheme =>
        /\ Raised(Outcome)
        /\ Outcome.exc = "AttributeError"

\* C16 as amended: for such a receiver check_signature fails with the
\* AttributeError of the verifier lookup when the request carries the
\* scheme's header with a value that is not empty, and returns False, a
\* failed signature, when the header is absent or empty; it never passes and
\* never calls a verifier.
C16_UnresolvableByHeader ==
    UnresolvableScheme =>
        /\ ( /\ Self.signature \in DOMAIN request.headers
             /\ request.headers[Self.signature] # "" )
           => Outcome = Raise("AttributeError", PyStr("signatures"))
        /\ ( \/ Self.signature \notin DOMAIN request.headers
             \/ request.headers[Self.signature] = "" )
           => Outcome = ReturnsFalse
        /\ Outcome # ReturnsTrue
        /\ last.run.verifier = <<>>

\* the receiver of scheme X-Foo failed the lookup under a request with X-Foo
C16_Witness ==
    /\ last.op = "check_signature"
    /\ last.args.self = "foo"
    /\ request.headers = [h \in {XFoo} |-> "token"]
    /\ Raised(Outcome)
    /\ Outcome.exc = "AttributeError"

\* the request carries no value for the scheme of the receiver: the scheme's
\* header is absent, or present and empty
NoHeaderValue ==
    \/ Self.signature \notin DOMAIN request.headers
    \/ request.headers[Self.signature] = ""

\* C17: one check_signature, extract_payload or consume_event calls the
\* verifier at most once, and not at all when the scheme is empty or the
\* scheme's header is absent or empty; under a non-empty scheme an empty
\* header fails the signature check as an absent one does: check_signature
\* returns False, extract_payload and consume_event raise InvalidSignature
\* and reach no handler and no task.
C17_VerifierAtMostOnce ==
    last.op \in ReceiverOps =>
        /\ Len(last.run.verifier) <= 1
        /\ (Self.signature = NoSignature \/ NoHeaderValue) => last.run.verifier = <<>>
        /\ (Self.signature # NoSignature /\ NoHeaderValue) =>
              /\ last.op = "check_signature" => Outcome = ReturnsFalse
              /\ last.op # "check_signature" =>
                    /\ Raised(Outcome)
                    /\ Outcome.exc = "InvalidSignature"
                    /\ last.run.calls = <<>>
                    /\ last.run.sent = <<>>
        /\ last.run.verifier # <<>> =>
              last.run.verifier[1] = <<ValidatorName(Self.signature),
                                       request.headers[Self.signature], request.data>>

\* consume_event of the signed receiver under an empty X-Hub-Signature
\* failed without a verifier call
C17_Witness ==
    /\ last.op = "consume_event"
    /\ last.args.self = "signed"
    /\ request.headers = [h \in {XHubSignature} |-> ""]
    /\ request.content_type = "application/json"
    /\ request.data = JsonBody
    /\ Raised(Outcome)
    /\ Outcome.exc = "InvalidSignature"
    /\ last.run.verifier = <<>>

\* the operations of the registry and of the receivers
Operations ==
    {"register", "unregister", "get", "all", "get_hook_url", "check_signature",
     "extract_payload", "consume_event"}

\* C18: a step of get, all, get_hook_url, check_signature, extract_payload
\* or consume_event, whether the call returns or raises, leaves the registry
\* as it was; of the operations, only register and unregister change which
\* ids are registered or to which receivers.
C18_OnlyRegisterAndUnregisterWrite ==
    [][ /\ last'.op \in Operations \ {"register", "unregister"} => receivers' = receivers
        /\ (last'.op \in Operations /\ receivers' # receivers)
              => last'.op \in {"register", "unregister"} ]_vars

\* after all(), a deferred consume_event that left its message in the queue
\* and an extract_payload that raised, both registrations are in place
C18_Witness ==
    /\ receivers = [k \in Ids |-> IF k = "github" THEN "deferred" ELSE "signed"]
    /\ queue # <<>>
    /\ returned = ReceiversRef
    /\ last.op = "extract_payload"
    /\ Raised(Outcome)

\* C19: a request in flight that got its receiver from get(id) is finished
\* on that receiver, whatever the other thread registers or unregisters under
\* the id in between: its event is created under that receiver's scheme and
\* handed to that receiver's handler or task, so that the outcome is the one
\* of consume_event on the receiver it got; no request is verified under one
\* receiver's scheme and handed to the handler or task of another.
C19_InflightKeepsItsReceiver ==
    LET self == Object(inflight.self)
    IN  /\ (inflight.pc = "done" /\ inflight.self = "") =>
              /\ inflight.run.outcome = Raise("ReceiverDoesNotExist", PyStr(inflight.receiver_id))
              /\ inflight.run.calls = <<>>
              /\ inflight.run.sent = <<>>
        /\ inflight.pc = "got" => inflight.registry[inflight.receiver_id] = inflight.self
        /\ inflight.pc = "created" =>
              /\ inflight.run = _create_event(self, inflight.user_id, inflight.request)
              /\ ~Raised(inflight.run.outcome)
        /\ (inflight.pc = "done" /\ inflight.self # "") =>
              /\ inflight.run = consume_event(self, inflight.user_id, inflight.request)
              /\ inflight.run.verifier = check_signature(self, inflight.request).verifier
              /\ (inflight.run.calls # <<>> \/ inflight.run.sent # <<>>) =>
                    check_signature(self, inflight.request).outcome = ReturnsTrue
              /\ inflight.run.calls # <<>> => self.class = "Receiver"
              /\ inflight.run.sent # <<>> =>
                    /\ self.class = "CeleryReceiver"
                    /\ inflight.run.sent[1].task = self._task

\* the thread got the receiver without scheme, the id was registered anew with
\* the deferred receiver of X-Hub-Signature before the dispatch, and the
\* unsigned request reached the handler of the receiver the thread had got
C19_Witness ==
    /\ inflight.pc = "done"
    /\ inflight.self = "plain"
    /\ inflight.receiver_id = "github"
    /\ inflight.request.headers = <<>>
    /\ inflight.registry = [k \in {"github"} |-> "deferred"]
    /\ Len(inflight.run.calls) = 1
    /\ inflight.run.sent = <<>>

====
